---- MODULE Spec2Model ----
(***************************************************************************)
(* Model of lsst.pex.exceptions.wrappers: the registry that maps native     *)
(* (C++) exception types to their Python wrapper classes, the wrapper       *)
(* class hierarchy, Exception.__init__, translate and declare.              *)
(***************************************************************************)
EXTENDS Integers, Sequences, FiniteSets, TLC

\* ------------------------------------------------------------------ bounds
\* The number of objects created after the module is loaded: classes made by
\* declare, native faults, wrapper instances.
MaxObjects == 4

\* ------------------------------------------------------------ input universe
\* Messages a caller passes, messages of faults raised by native code, extra
\* constructor arguments, and the names and modules handed to declare.
\* A string is a sequence of tokens.
Messages == {<<"boom">>}
RaisedMessages == {<<"oops">>}
Extras == {<< >>, <<"extra">>}
DeclareNames == {"FooError", "BarError"}
Modules == {"lsst.ext"}

\* ------------------------------------------------------------- class values
\* A class object: its __name__ and a serial that tells apart two classes
\* created under one name (serial 0: created by a class statement or a
\* builtin; serial n > 0: the n-th class created by declare).
Cls(name, serial) == [name |-> name, serial |-> serial]

\* The host's builtin exception classes named in the class statements.
builtins_Exception == [name |-> "builtins.Exception", serial |-> 0]
builtins_RuntimeError == [name |-> "builtins.RuntimeError", serial |-> 0]
builtins_OverflowError == [name |-> "builtins.OverflowError", serial |-> 0]
builtins_ArithmeticError == [name |-> "builtins.ArithmeticError", serial |-> 0]
builtins_LookupError == [name |-> "builtins.LookupError", serial |-> 0]
builtins_IOError == [name |-> "builtins.IOError", serial |-> 0]
builtins_TypeError == [name |-> "builtins.TypeError", serial |-> 0]

\* The 13 wrapper classes of the module.
Exception == [name |-> "Exception", serial |-> 0]
LogicError == [name |-> "LogicError", serial |-> 0]
DomainError == [name |-> "DomainError", serial |-> 0]
InvalidParameterError == [name |-> "InvalidParameterError", serial |-> 0]
LengthError == [name |-> "LengthError", serial |-> 0]
OutOfRangeError == [name |-> "OutOfRangeError", serial |-> 0]
RuntimeError == [name |-> "RuntimeError", serial |-> 0]
RangeError == [name |-> "RangeError", serial |-> 0]
OverflowError == [name |-> "OverflowError", serial |-> 0]
UnderflowError == [name |-> "UnderflowError", serial |-> 0]
NotFoundError == [name |-> "NotFoundError", serial |-> 0]
IoError == [name |-> "IoError", serial |-> 0]
TypeError == [name |-> "TypeError", serial |-> 0]

\* A class attribute that the class's own __dict__ does not hold.
Unset == "<unset>"

\* The native fault types of the exceptions module (the 13 the wrappers
\* mirror), and native types of extension modules, each with its native base.
BuiltinNativeTypes ==
    {"exceptions.Exception", "exceptions.LogicError", "exceptions.DomainError",
     "exceptions.InvalidParameterError", "exceptions.LengthError",
     "exceptions.OutOfRangeError", "exceptions.RuntimeError",
     "exceptions.RangeError", "exceptions.OverflowError",
     "exceptions.UnderflowError", "exceptions.NotFoundError",
     "exceptions.IoError", "exceptions.TypeError"}
ExtNativeTypes == {"ext.TimeoutError", "ext.ParseError"}
NativeTypes == BuiltinNativeTypes \cup ExtNativeTypes
NativeBase(t) ==
    CASE t = "ext.TimeoutError" -> "exceptions.RuntimeError"
      [] t = "ext.ParseError" -> "exceptions.Exception"
      [] OTHER -> Unset

\* ------------------------------------------------------- class statements
\* One record per class statement of the module, in source order: the class,
\* its bases as the names resolve when the statement runs, and the
\* WrappedClass its body sets.
class_Exception ==
    [cls |-> Exception, bases |-> <<builtins_Exception>>,
     WrappedClass |-> "exceptions.Exception"]
class_LogicError ==
    [cls |-> LogicError, bases |-> <<Exception>>,
     WrappedClass |-> "exceptions.LogicError"]
class_DomainError ==
    [cls |-> DomainError, bases |-> <<LogicError>>,
     WrappedClass |-> "exceptions.DomainError"]
class_InvalidParameterError ==
    [cls |-> InvalidParameterError, bases |-> <<LogicError>>,
     WrappedClass |-> "exceptions.InvalidParameterError"]
class_LengthError ==
    [cls |-> LengthError, bases |-> <<LogicError>>,
     WrappedClass |-> "exceptions.LengthError"]
class_OutOfRangeError ==
    [cls |-> OutOfRangeError, bases |-> <<LogicError>>,
     WrappedClass |-> "exceptions.OutOfRangeError"]
class_RuntimeError ==
    [cls |-> RuntimeError, bases |-> <<Exception, builtins_RuntimeError>>,
     WrappedClass |-> "exceptions.RuntimeError"]
class_RangeError ==
    [cls |-> RangeError, bases |-> <<RuntimeError>>,
     WrappedClass |-> "exceptions.RangeError"]
\* class OverflowError(RuntimeError): the host base left out.
class_OverflowError_noHostBase ==
    [cls |-> OverflowError, bases |-> <<RuntimeError>>,
     WrappedClass |-> "exceptions.OverflowError"]
class_OverflowError ==
    [cls |-> OverflowError, bases |-> <<RuntimeError, builtins_OverflowError>>,
     WrappedClass |-> "exceptions.OverflowError"]
class_UnderflowError ==
    [cls |-> UnderflowError, bases |-> <<RuntimeError, builtins_ArithmeticError>>,
     WrappedClass |-> "exceptions.UnderflowError"]
\* class NotFoundError(RuntimeError, LookupError): declared under RuntimeError.
class_NotFoundError_underRuntimeError ==
    [cls |-> NotFoundError, bases |-> <<RuntimeError, builtins_LookupError>>,
     WrappedClass |-> "exceptions.NotFoundError"]
class_NotFoundError ==
    [cls |-> NotFoundError, bases |-> <<Exception, builtins_LookupError>>,
     WrappedClass |-> "exceptions.NotFoundError"]
class_IoError ==
    [cls |-> IoError, bases |-> <<RuntimeError, builtins_IOError>>,
     WrappedClass |-> "exceptions.IoError"]
class_TypeError ==
    [cls |-> TypeError, bases |-> <<LogicError, builtins_TypeError>>,
     WrappedClass |-> "exceptions.TypeError"]

ClassStatements ==
    <<class_Exception, class_LogicError, class_DomainError,
      class_InvalidParameterError, class_LengthError, class_OutOfRangeError,
      class_RuntimeError, class_RangeError, class_OverflowError,
      class_UnderflowError, class_NotFoundError, class_IoError,
      class_TypeError>>

\* --------------------------------------------------------------- state
VARIABLES
    registry,   \* the module's registry dict: native type -> wrapper class
    classes,    \* every wrapper class created so far: class -> [bases, WrappedClass]
    namespace,  \* the attributes declare has set on each module: module -> (name -> class)
    heap,       \* the native fault objects alive, by identity (index)
    wrappers,   \* the wrapper instances created so far, in creation order
    warnings,   \* the number of warnings.warn calls made so far
    last        \* the last call that wrote the registry (register, declare) and what it returned

vars == <<registry, classes, namespace, heap, wrappers, warnings, last>>

\* ------------------------------------------------------------- helpers
\* d[k] = v on a dict.
DictSet(d, k, v) ==
    [x \in (DOMAIN d) \cup {k} |-> IF x = k THEN v ELSE d[x]]

EmptyDict == [x \in {} |-> Unset]

\* issubclass(c, d) over the class table (host builtins are roots here).
RECURSIVE issubclass(_, _, _)
issubclass(tbl, c, d) ==
    \/ c = d
    \/ /\ c \in DOMAIN tbl
       /\ \E i \in DOMAIN tbl[c].bases : issubclass(tbl, tbl[c].bases[i], d)

\* cls.WrappedClass: the class's own attribute, else the first base (left to
\* right, depth first) that has one.
RECURSIVE getattr_WrappedClass(_, _)
getattr_WrappedClass(tbl, c) ==
    IF c \notin DOMAIN tbl THEN Unset
    ELSE IF tbl[c].WrappedClass # Unset THEN tbl[c].WrappedClass
    ELSE LET found == {i \in DOMAIN tbl[c].bases :
                          getattr_WrappedClass(tbl, tbl[c].bases[i]) # Unset}
         IN IF found = {} THEN Unset
            ELSE getattr_WrappedClass(tbl,
                     tbl[c].bases[CHOOSE i \in found : \A j \in found : i <= j])

\* registry.setdefault(cls.WrappedClass, cls): the first registration is kept.
register_setdefault(reg, tbl, cls) ==
    [registry |-> IF getattr_WrappedClass(tbl, cls) \in DOMAIN reg THEN reg
                  ELSE DictSet(reg, getattr_WrappedClass(tbl, cls), cls),
     ret |-> cls]

\* registry[cls.__name__] = cls: keyed by the wrapper's name.
register_byName(reg, tbl, cls) ==
    [registry |-> DictSet(reg, cls.name, cls), ret |-> cls]

\* register(cls): registry[cls.WrappedClass] = cls; return cls.
register(reg, tbl, cls) ==
    [registry |-> DictSet(reg, getattr_WrappedClass(tbl, cls), cls), ret |-> cls]

\* The state after the first n class statements of the module have run, each
\* decorated with @register.
RECURSIVE LoadModule(_)
LoadModule(n) ==
    IF n = 0 THEN [registry |-> EmptyDict, classes |-> EmptyDict]
    ELSE LET before == LoadModule(n - 1)
             st == ClassStatements[n]
             tbl == DictSet(before.classes, st.cls,
                            [bases |-> st.bases, WrappedClass |-> st.WrappedClass])
         IN [registry |-> register(before.registry, tbl, st.cls).registry,
             classes |-> tbl]

\* isinstance(arg, exceptions.Exception): arg is a native fault object.
isinstance_Exception(arg) == arg.kind = "fault"

\* The values a wrapper is constructed from: a native fault object (by
\* identity) or a message string.
FaultArg(i) == [kind |-> "fault", ref |-> i, val |-> << >>]
StrArg(s) == [kind |-> "str", ref |-> 0, val |-> s]

\* The native constructor WrappedClass(message, *args): a new native fault
\* whose what() is the message; built from Python it has no traceback, and
\* asString() is the message.
NativeConstruct(t, message, args) ==
    [type |-> t, what |-> message, asString |-> message, args |-> args]

\* A fault raised on the native side: its asString() carries the traceback
\* and the type.
NativeRaised(t, message) ==
    [type |-> t, what |-> message,
     asString |-> <<"traceback", t>> \o message, args |-> << >>]

\* Exception.__init__ that reuses a native fault of the same type and message
\* when one exists.
Exception__init___cached(tbl, hp, cls, arg, args) ==
    IF isinstance_Exception(arg)
    THEN [heap |-> hp,
          self |-> [type |-> cls, cpp |-> arg.ref, message |-> hp[arg.ref].what]]
    ELSE LET cpp == NativeConstruct(getattr_WrappedClass(tbl, cls), arg.val, args)
             same == {i \in DOMAIN hp : hp[i].type = cpp.type /\ hp[i].what = cpp.what}
         IN IF same # {}
            THEN [heap |-> hp,
                  self |-> [type |-> cls, cpp |-> CHOOSE i \in same : TRUE,
                            message |-> arg.val]]
            ELSE [heap |-> Append(hp, cpp),
                  self |-> [type |-> cls, cpp |-> Len(hp) + 1, message |-> arg.val]]

\* Exception.__init__ that passes str(cpp) to the base initializer.
Exception__init___strMessage(tbl, hp, cls, arg, args) ==
    IF isinstance_Exception(arg)
    THEN [heap |-> hp,
          self |-> [type |-> cls, cpp |-> arg.ref, message |-> hp[arg.ref].asString]]
    ELSE LET cpp == NativeConstruct(getattr_WrappedClass(tbl, cls), arg.val, args)
         IN [heap |-> Append(hp, cpp),
             self |-> [type |-> cls, cpp |-> Len(hp) + 1, message |-> arg.val]]

\* Exception.__init__ without the isinstance branch: a new native fault is
\* constructed from the message of whatever is passed.
Exception__init___alwaysNew(tbl, hp, cls, arg, args) ==
    LET message == IF isinstance_Exception(arg) THEN hp[arg.ref].what ELSE arg.val
        cpp == NativeConstruct(getattr_WrappedClass(tbl, cls), message, args)
    IN [heap |-> Append(hp, cpp),
        self |-> [type |-> cls, cpp |-> Len(hp) + 1, message |-> message]]

\* Exception.__init__(self, arg, *args): the heap after the call and the
\* instance (its class, its cpp, the message given to the base initializer).
Exception__init__(tbl, hp, cls, arg, args) ==
    IF isinstance_Exception(arg)
    THEN [heap |-> hp,
          self |-> [type |-> cls, cpp |-> arg.ref, message |-> hp[arg.ref].what]]
    ELSE LET cpp == NativeConstruct(getattr_WrappedClass(tbl, cls), arg.val, args)
         IN [heap |-> Append(hp, cpp),
             self |-> [type |-> cls, cpp |-> Len(hp) + 1, message |-> arg.val]]

\* Exception.__str__ and __repr__.
Exception__str__(hp, self) == hp[self.cpp].asString
Exception__repr__(hp, self) ==
    <<self.type.name, "('">> \o hp[self.cpp].what \o <<"')">>

\* translate that looks the registry up by the fault's type name, which is
\* never a key.
translate_keyMiss(reg, tbl, hp, cpp) ==
    [warned |-> 1,
     made |-> Exception__init__(tbl, hp, Exception, FaultArg(cpp), << >>)]

\* translate that falls back to the wrapper of the native base class.
translate_baseFallback(reg, tbl, hp, cpp) ==
    LET t == hp[cpp].type
        found == t \in DOMAIN reg
        viaBase == ~found /\ NativeBase(t) \in DOMAIN reg
        PyType == IF found THEN reg[t]
                  ELSE IF viaBase THEN reg[NativeBase(t)] ELSE Exception
    IN [warned |-> IF found \/ viaBase THEN 0 ELSE 1,
        made |-> Exception__init__(tbl, hp, PyType, FaultArg(cpp), << >>)]

\* translate(cpp): the wrapper class is looked up by the exact type of cpp;
\* the number of warnings emitted and the result of PyType(cpp).
translate(reg, tbl, hp, cpp) ==
    LET t == hp[cpp].type
        found == t \in DOMAIN reg
        PyType == IF found THEN reg[t] ELSE Exception
    IN [warned |-> IF found THEN 0 ELSE 1,
        made |-> Exception__init__(tbl, hp, PyType, FaultArg(cpp), << >>)]

\* declare that registers the new class only when its wrapped class has no
\* wrapper yet.
declare_keepFirst(reg, tbl, ns, serial, module, exception_name, base, wrapped_class) ==
    LET cls == Cls(exception_name, serial)
        tbl2 == DictSet(tbl, cls, [bases |-> <<base>>, WrappedClass |-> wrapped_class])
        r == IF wrapped_class \in DOMAIN reg THEN [registry |-> reg, ret |-> cls]
             ELSE register(reg, tbl2, cls)
    IN [cls |-> cls, classes |-> tbl2, registry |-> r.registry,
        namespace |-> [ns EXCEPT ![module] = DictSet(ns[module], exception_name, r.ret)]]

\* declare(module, exception_name, base, wrapped_class): the new class, and
\* the class table, the registry and the namespace after the call.
declare(reg, tbl, ns, serial, module, exception_name, base, wrapped_class) ==
    LET cls == Cls(exception_name, serial)
        tbl2 == DictSet(tbl, cls, [bases |-> <<base>>, WrappedClass |-> wrapped_class])
        r == register(reg, tbl2, cls)
    IN [cls |-> cls, classes |-> tbl2, registry |-> r.registry,
        namespace |-> [ns EXCEPT ![module] = DictSet(ns[module], exception_name, r.ret)]]

\* The classes declare has made.
Declared == {c \in DOMAIN classes : c.serial > 0}

\* The objects created since the module was loaded.
Created == Cardinality(Declared) + Len(heap) + Len(wrappers)

\* A wrapper instance as the model keeps it: the instance, and the call that
\* made it (translate or a direct construction, with its arguments).
Call(via, arg, args, self) ==
    [type |-> self.type, cpp |-> self.cpp, message |-> self.message,
     via |-> via, arg |-> arg, args |-> args]

\* ----------------------------------------------------------------- Init
Init ==
    /\ registry = LoadModule(Len(ClassStatements)).registry
    /\ classes = LoadModule(Len(ClassStatements)).classes
    /\ namespace = [m \in Modules |-> EmptyDict]
    /\ heap = << >>
    /\ wrappers = << >>
    /\ warnings = 0
    /\ last = [call |-> [op |-> "load"], prev |-> [op |-> "load"]]

\* --------------------------------------------------------------- actions
\* register(cls) called on an existing wrapper class.
Register(cls) ==
    /\ registry' = register(registry, classes, cls).registry
    /\ last' = [call |-> [op |-> "register", cls |-> cls,
                          ret |-> register(registry, classes, cls).ret],
                prev |-> last.call]
    /\ UNCHANGED <<classes, namespace, heap, wrappers, warnings>>

\* declare(module, exception_name, base, wrapped_class).
Declare(module, exception_name, base, wrapped_class) ==
    /\ Created + 1 <= MaxObjects
    /\ LET d == declare(registry, classes, namespace, Cardinality(Declared) + 1,
                        module, exception_name, base, wrapped_class)
       IN /\ registry' = d.registry
          /\ classes' = d.classes
          /\ namespace' = d.namespace
          /\ last' = [call |-> [op |-> "declare", cls |-> d.cls, module |-> module,
                                name |-> exception_name, base |-> base,
                                wrapped_class |-> wrapped_class],
                      prev |-> last.call]
    /\ UNCHANGED <<heap, wrappers, warnings>>

\* Native code raises a fault of type t.
NativeRaise(t, message) ==
    /\ Created + 1 <= MaxObjects
    /\ heap' = Append(heap, NativeRaised(t, message))
    /\ UNCHANGED <<registry, classes, namespace, wrappers, warnings, last>>

\* translate(cpp) on a native fault object.
Translate(cpp) ==
    /\ Created + 1 <= MaxObjects
    /\ LET t == translate(registry, classes, heap, cpp)
       IN /\ heap' = t.made.heap
          /\ wrappers' = Append(wrappers, Call("translate", FaultArg(cpp), << >>, t.made.self))
          /\ warnings' = warnings + t.warned
    /\ UNCHANGED <<registry, classes, namespace, last>>

\* cls(arg, *args): direct construction of a wrapper.
Construct(cls, arg, args) ==
    /\ Created + (IF isinstance_Exception(arg) THEN 1 ELSE 2) <= MaxObjects
    /\ LET made == Exception__init__(classes, heap, cls, arg, args)
       IN /\ heap' = made.heap
          /\ wrappers' = Append(wrappers, Call("construct", arg, args, made.self))
    /\ UNCHANGED <<registry, classes, namespace, warnings, last>>

\* The arguments the calls are tried with.
RegisterClasses == {NotFoundError} \cup Declared
DeclareBases == {OverflowError}
DeclareWrapped == {"ext.TimeoutError", "exceptions.NotFoundError"}
RaisedTypes == {"exceptions.NotFoundError", "ext.TimeoutError"}
ConstructClasses == {OverflowError} \cup Declared

Next ==
    \/ \E cls \in RegisterClasses : Register(cls)
    \/ \E m \in Modules, n \in DeclareNames, b \in DeclareBases, w \in DeclareWrapped :
          Declare(m, n, b, w)
    \/ \E t \in RaisedTypes, msg \in RaisedMessages : NativeRaise(t, msg)
    \/ \E cpp \in DOMAIN heap : Translate(cpp)
    \/ \E cls \in ConstructClasses, msg \in Messages, args \in Extras :
          Construct(cls, StrArg(msg), args)
    \/ \E cls \in ConstructClasses, cpp \in DOMAIN heap, args \in Extras :
          Construct(cls, FaultArg(cpp), args)

Spec == Init /\ [][Next]_vars

\* ---------------------------------------------------------------- claims
\* The wrapper instance a step appended, the fault it was made from, and the
\* steps that are a call of translate or a direct construction.
NewWrapper == wrappers'[Len(wrappers')]
IsNewWrapperStep == Len(wrappers') = Len(wrappers) + 1
IsTranslateStep == IsNewWrapperStep /\ NewWrapper.via = "translate"
IsConstructStep == IsNewWrapperStep /\ NewWrapper.via = "construct"
IsRegisterStep == last' # last /\ last'.call.op = "register"

\* translate applied, in the current state, to a new fault of native type N.
TranslateNew(N) ==
    translate(registry, classes, Append(heap, NativeRaised(N, <<"oops">>)),
              Len(heap) + 1)

catchable(w, C) == issubclass(classes, w.type, C)

Range(f) == {f[x] : x \in DOMAIN f}

\* C1, for every registered native type (the 13 of the module and those
\* declare added): translate of a fault of exactly that type makes an
\* instance of exactly the registered wrapper, holding that fault.
C1_AllRegistered ==
    \A N \in DOMAIN registry :
        getattr_WrappedClass(classes, registry[N]) = N =>
            LET t == TranslateNew(N)
            IN /\ t.made.self.type = registry[N]
               /\ t.made.self.cpp = Len(heap) + 1
               /\ t.made.heap = Append(heap, NativeRaised(N, <<"oops">>))

\* C1, for every call of translate made.
C1_TranslateStep ==
    IsTranslateStep =>
        LET x == NewWrapper.arg.ref
            N == heap[x].type
        IN (N \in DOMAIN registry /\ getattr_WrappedClass(classes, registry[N]) = N) =>
              /\ NewWrapper.type = registry[N]
              /\ NewWrapper.cpp = x
              /\ heap' = heap

\* C1: round-trip identity. In every state reached by register and declare
\* calls, translate(x) for x whose exact type is N, with W registered under
\* N = W.WrappedClass, returns an instance of exactly W whose cpp is x.
C1_RoundTrip == []C1_AllRegistered /\ [][C1_TranslateStep]_vars

\* A fault of a type registered by declare was translated to the declared class.
C1_Witness ==
    \E i \in DOMAIN wrappers :
        /\ wrappers[i].via = "translate"
        /\ wrappers[i].type.serial > 0
        /\ heap[wrappers[i].cpp].type \in DOMAIN registry
        /\ registry[heap[wrappers[i].cpp].type] = wrappers[i].type

\* C2, for every native type that is not a key of the registry.
C2_AllUnregistered ==
    \A N \in NativeTypes \ DOMAIN registry :
        LET t == TranslateNew(N)
        IN /\ t.warned = 1
           /\ t.made.self.type = Exception
           /\ t.made.self.cpp = Len(heap) + 1
           /\ t.made.heap = Append(heap, NativeRaised(N, <<"oops">>))

\* C2, for every call of translate made.
C2_TranslateStep ==
    IsTranslateStep =>
        LET x == NewWrapper.arg.ref
        IN heap[x].type \notin DOMAIN registry =>
              /\ NewWrapper.type = Exception
              /\ NewWrapper.cpp = x
              /\ warnings' = warnings + 1
              /\ heap' = heap

\* C2: fallback safety. translate of a fault whose exact type is not a key of
\* the registry (also when its native base is registered) emits exactly one
\* warning and returns an instance of exactly the base Exception wrapper
\* whose cpp is that fault.
C2_FallbackSafety == []C2_AllUnregistered /\ [][C2_TranslateStep]_vars

\* A fault whose type is unregistered but whose native base is registered was
\* translated.
C2_Witness ==
    \E i \in DOMAIN wrappers :
        /\ wrappers[i].via = "translate"
        /\ wrappers[i].type = Exception
        /\ heap[wrappers[i].cpp].type \notin DOMAIN registry
        /\ NativeBase(heap[wrappers[i].cpp].type) \in DOMAIN registry
        /\ warnings = 1

\* Two consecutive declare calls with the same module, base and native type
\* and different names.
C3_TwoDeclares ==
    /\ last.call.op = "declare"
    /\ last.prev.op = "declare"
    /\ last.call.module = last.prev.module
    /\ last.call.base = last.prev.base
    /\ last.call.wrapped_class = last.prev.wrapped_class
    /\ last.call.name # last.prev.name

\* C3 as amended: last registration wins. After two such declare calls,
\* translate of a fault of N returns an instance of the second class and the
\* registry holds the first class under no key; the first class stays bound
\* in the namespace under its name, beside the second.
C3_LastRegistrationWins ==
    C3_TwoDeclares =>
        LET N == last.call.wrapped_class
            ns == namespace[last.call.module]
        IN /\ registry[N] = last.call.cls
           /\ TranslateNew(N).made.self.type = last.call.cls
           /\ last.prev.cls \notin Range(registry)
           /\ last.call.name \in DOMAIN ns /\ ns[last.call.name] = last.call.cls
           /\ last.prev.name \in DOMAIN ns /\ ns[last.prev.name] = last.prev.cls

\* C3 as claimed: no reference to the first class remains, neither in the
\* registry nor in the namespace.
C3_Original ==
    C3_TwoDeclares =>
        LET N == last.call.wrapped_class
        IN /\ registry[N] = last.call.cls
           /\ TranslateNew(N).made.self.type = last.call.cls
           /\ last.prev.cls \notin Range(registry)
           /\ last.prev.cls \notin Range(namespace[last.call.module])

\* After the two declare calls a fault of N was translated to the second class.
C3_Witness ==
    /\ C3_TwoDeclares
    /\ \E i \in DOMAIN wrappers :
          /\ wrappers[i].via = "translate"
          /\ wrappers[i].type = last.call.cls

\* C4 as claimed: exclusive ownership. No two wrapper instances hold the same
\* native fault.
C4_Original ==
    \A i, j \in DOMAIN wrappers : i # j => wrappers[i].cpp # wrappers[j].cpp

\* C4 as amended: a wrapper constructed from a message holds a native fault
\* that no wrapper created before it holds; two wrappers hold the same fault
\* only when the later one was made from that existing fault.
C4_FreshFromMessage ==
    \A i, j \in DOMAIN wrappers :
        (i < j /\ wrappers[i].cpp = wrappers[j].cpp) =>
            isinstance_Exception(wrappers[j].arg)

\* A wrapper made from a message and a later wrapper made from its cpp.
C4_Witness ==
    \E i, j \in DOMAIN wrappers :
        /\ i < j
        /\ ~isinstance_Exception(wrappers[i].arg)
        /\ wrappers[i].cpp = wrappers[j].cpp

\* C5: message fidelity. For every wrapper instance w, str(w) is
\* w.cpp.asString() and the message given to the base initializer is
\* w.cpp.what().
C5_MessageFidelity ==
    \A i \in DOMAIN wrappers :
        /\ Exception__str__(heap, wrappers[i]) = heap[wrappers[i].cpp].asString
        /\ wrappers[i].message = heap[wrappers[i].cpp].what

\* A wrapper translated from a raised fault (asString differs from what) and
\* a wrapper constructed from a message with extra arguments.
C5_Witness ==
    /\ \E i \in DOMAIN wrappers :
          /\ wrappers[i].via = "translate"
          /\ heap[wrappers[i].cpp].asString # heap[wrappers[i].cpp].what
    /\ \E i \in DOMAIN wrappers :
          /\ ~isinstance_Exception(wrappers[i].arg)
          /\ wrappers[i].args # << >>

LogicErrorSubtypes ==
    {DomainError, InvalidParameterError, LengthError, OutOfRangeError, TypeError}
RuntimeErrorSubtypes == {RangeError, OverflowError, UnderflowError, IoError}

\* The parent each instance of a class is catchable as.
CatchableAsParent(child, parent) ==
    /\ issubclass(classes, child, parent)
    /\ \A i \in DOMAIN wrappers : catchable(wrappers[i], child) => catchable(wrappers[i], parent)

\* C6 as claimed: the tree of the specification, NotFoundError under
\* RuntimeError.
C6_Original ==
    /\ \A c \in LogicErrorSubtypes : CatchableAsParent(c, LogicError)
    /\ \A c \in RuntimeErrorSubtypes \cup {NotFoundError} : CatchableAsParent(c, RuntimeError)
    /\ Exception \in Range(classes[LogicError].bases)
    /\ Exception \in Range(classes[RuntimeError].bases)

\* C6 as amended: the same tree, except that NotFoundError is a direct
\* subtype of the base Exception wrapper and no subtype of RuntimeError.
C6_Hierarchy ==
    /\ \A c \in LogicErrorSubtypes : CatchableAsParent(c, LogicError)
    /\ \A c \in RuntimeErrorSubtypes : CatchableAsParent(c, RuntimeError)
    /\ Exception \in Range(classes[LogicError].bases)
    /\ Exception \in Range(classes[RuntimeError].bases)
    /\ Exception \in Range(classes[NotFoundError].bases)
    /\ CatchableAsParent(NotFoundError, Exception)
    /\ ~issubclass(classes, NotFoundError, RuntimeError)
    /\ \A i \in DOMAIN wrappers :
          wrappers[i].type = NotFoundError => ~catchable(wrappers[i], RuntimeError)

\* An instance of NotFoundError and an instance of a subtype of RuntimeError.
C6_Witness ==
    /\ \E i \in DOMAIN wrappers : wrappers[i].type = NotFoundError
    /\ \E i \in DOMAIN wrappers : catchable(wrappers[i], OverflowError)

\* C7: dual-category catchability. Every instance of the wrapper is
\* catchable as the host category too: OverflowError as the custom
\* RuntimeError and the host OverflowError, IoError as host IOError,
\* NotFoundError as host LookupError, TypeError as host TypeError,
\* UnderflowError as host ArithmeticError, RuntimeError as host RuntimeError.
C7_DualCategory ==
    /\ CatchableAsParent(OverflowError, RuntimeError)
    /\ CatchableAsParent(OverflowError, builtins_OverflowError)
    /\ CatchableAsParent(IoError, builtins_IOError)
    /\ CatchableAsParent(NotFoundError, builtins_LookupError)
    /\ CatchableAsParent(TypeError, builtins_TypeError)
    /\ CatchableAsParent(UnderflowError, builtins_ArithmeticError)
    /\ CatchableAsParent(RuntimeError, builtins_RuntimeError)

\* An instance of a declared subclass of OverflowError and an instance of
\* NotFoundError.
C7_Witness ==
    /\ \E i \in DOMAIN wrappers :
          wrappers[i].type.serial > 0 /\ catchable(wrappers[i], OverflowError)
    /\ \E i \in DOMAIN wrappers : wrappers[i].type = NotFoundError

\* C8, for every wrapper class: register returns it and writes only its key.
C8_AllClasses ==
    \A W \in DOMAIN classes :
        LET r == register(registry, classes, W)
            k == getattr_WrappedClass(classes, W)
        IN /\ r.ret = W
           /\ DOMAIN r.registry = DOMAIN registry \cup {k}
           /\ r.registry[k] = W
           /\ \A j \in DOMAIN registry \ {k} : r.registry[j] = registry[j]

\* C8, for every step.
C8_Step ==
    /\ DOMAIN registry \subseteq DOMAIN registry'
    /\ IsTranslateStep => registry' = registry
    /\ IsRegisterStep =>
          LET W == last'.call.cls
              k == getattr_WrappedClass(classes, W)
          IN /\ last'.call.ret = W
             /\ classes' = classes
             /\ DOMAIN registry' = DOMAIN registry \cup {k}
             /\ registry'[k] = W
             /\ \A j \in DOMAIN registry \ {k} : registry'[j] = registry[j]

\* C8: register(W) returns W unchanged, sets the entry keyed by
\* W.WrappedClass to W and leaves every other entry as it was; no step
\* removes a key, and translate leaves the registry unchanged.
C8_RegisterFrame == []C8_AllClasses /\ [][C8_Step]_vars

\* register put a class back over the class a declare had registered for the
\* same native type.
C8_Witness ==
    /\ last.call.op = "register"
    /\ last.prev.op = "declare"
    /\ last.prev.cls # last.call.cls
    /\ last.prev.wrapped_class = getattr_WrappedClass(classes, last.call.cls)
    /\ registry[last.prev.wrapped_class] = last.call.cls

\* C9 as claimed: a construction from an existing native fault with extra
\* arguments is not accepted.
C9_Original ==
    \A i \in DOMAIN wrappers :
        ~(wrappers[i].via = "construct" /\ isinstance_Exception(wrappers[i].arg)
          /\ wrappers[i].args # << >>)

\* C9, first mode, whatever the extra arguments: they are ignored.
C9_ExtrasIgnored ==
    \A cls \in DOMAIN classes, x \in DOMAIN heap, args \in Extras :
        LET made == Exception__init__(classes, heap, cls, FaultArg(x), args)
        IN /\ made.heap = heap
           /\ made.self.cpp = x
           /\ made = Exception__init__(classes, heap, cls, FaultArg(x), << >>)

\* C9, for every direct construction made.
C9_ConstructStep ==
    IsConstructStep =>
        IF isinstance_Exception(NewWrapper.arg)
        THEN /\ NewWrapper.cpp = NewWrapper.arg.ref
             /\ heap' = heap
        ELSE /\ heap' = Append(heap,
                    NativeConstruct(getattr_WrappedClass(classes, NewWrapper.type),
                                    NewWrapper.arg.val, NewWrapper.args))
             /\ NewWrapper.cpp = Len(heap')

\* C9 as amended: constructed from an existing native fault, cpp is that
\* fault and no native fault is constructed, and extra arguments are ignored;
\* constructed from a message, exactly one native fault is constructed, by
\* W.WrappedClass(message, *extra_args), and held as cpp.
C9_ConstructionModes == []C9_ExtrasIgnored /\ [][C9_ConstructStep]_vars

\* A wrapper constructed from an existing fault with extra arguments, and one
\* of a declared class constructed from a message with extra arguments.
C9_Witness ==
    /\ \E i \in DOMAIN wrappers :
          /\ wrappers[i].via = "construct"
          /\ isinstance_Exception(wrappers[i].arg)
          /\ wrappers[i].args # << >>
    /\ \E i \in DOMAIN wrappers :
          /\ wrappers[i].via = "construct"
          /\ ~isinstance_Exception(wrappers[i].arg)
          /\ wrappers[i].args # << >>

\* C10: registry consistency. Every entry k -> W of the registry has
\* W.WrappedClass = k, and the 13 native types of the module are keys.
C10_RegistryConsistent ==
    /\ \A k \in DOMAIN registry : getattr_WrappedClass(classes, registry[k]) = k
    /\ BuiltinNativeTypes \subseteq DOMAIN registry

\* A declared class is registered under a WrappedClass that overrides the one
\* its base has.
C10_Witness ==
    \E k \in DOMAIN registry :
        /\ registry[k].serial > 0
        /\ getattr_WrappedClass(classes, classes[registry[k]].bases[1]) # k

====
